---- MODULE Spec2Model ----
(***************************************************************************)
(* Model of src/components/right/management/ManageGroupMembers.tsx: the    *)
(* memoised member-list assembly (adminIds, memberIds, displayedIds), the  *)
(* pagination window the component obtains from useInfiniteScroll, and the *)
(* "remove from group" context action with its confirmation modal.         *)
(*                                                                         *)
(* An optional JavaScript value (T | undefined) is a sequence of length at *)
(* most one: None is undefined, Some(x) is the defined value x.            *)
(* An identifier is an opaque string; a string that the code inspects      *)
(* (a user's name, the search query) is a sequence of characters.          *)
(***************************************************************************)
EXTENDS Integers, Sequences, FiniteSets, TLC

VARIABLES
  \* props and global state read by the component
  members, adminMembersById, usersById, userStatusesById, chatsById,
  localContactIds, localUserIds, globalUserIds, searchQuery,
  isChannel, noAdmins, currentUserId, canDeleteMembers,
  \* memoised values and the outcome of the last render
  memberIds, displayedIds, displayedRef, rendered, raised,
  \* the pagination hook and the props handed to InfiniteScroll
  viewportIds, viewportSize, isDisabled, noScrollRestore,
  \* component state
  deletingUserId,
  \* history: viewportSize just before the last reset of the window
  sizeBeforeReset

inputs == <<members, adminMembersById, usersById, userStatusesById, chatsById,
            localContactIds, localUserIds, globalUserIds, searchQuery,
            isChannel, noAdmins>>
viewer == <<currentUserId, canDeleteMembers>>
memo == <<memberIds, displayedIds, displayedRef, rendered, raised>>
hook == <<viewportIds, viewportSize, isDisabled, noScrollRestore, sizeBeforeReset>>
vars == <<inputs, viewer, memo, hook, deletingUserId>>

\* the props and the global state one render reads
Snapshot ==
  [members |-> members, adminMembersById |-> adminMembersById,
   usersById |-> usersById, userStatusesById |-> userStatusesById,
   chatsById |-> chatsById, localContactIds |-> localContactIds,
   localUserIds |-> localUserIds, globalUserIds |-> globalUserIds,
   searchQuery |-> searchQuery, isChannel |-> isChannel, noAdmins |-> noAdmins]

----------------------------------------------------------------------------
(* Bounds of the model *)

\* longest members snapshot drawn for the assembler
MaxMembers == 2
\* longest contact list / search result list drawn for the assembler
MaxResults == 1
\* longest members snapshot of the mounted component
MaxListed == 6
\* page sizes of the pagination window, scaled down from the spec's 20 / 20
InitialPageSize == 2
PageIncrement == 2

----------------------------------------------------------------------------
(* Values *)

None == <<>>
Some(x) == <<x>>
IsSome(o) == Len(o) > 0
Val(o) == o[1]

Range(s) == {s[i] : i \in 1..Len(s)}
Min(a, b) == IF a <= b THEN a ELSE b
Front(s) == SubSeq(s, 1, Len(s) - 1)
Last(s) == s[Len(s)]
SeqsUpTo(S, n) == UNION {[1..k -> S] : k \in 0..n}
NoRepeat(s) == \A i, j \in 1..Len(s) : s[i] = s[j] => i = j

AllIds == <<"u1", "u2", "u3", "u4", "u5", "u6", "u7", "u8">>
\* the identifiers the assembler's inputs are drawn from
Ids == {AllIds[1], AllIds[2]}

Human == [isBot |-> FALSE, canBeInvitedToGroup |-> FALSE, firstName |-> <<"A", "n", "n">>]
InvitableBot == [isBot |-> TRUE, canBeInvitedToGroup |-> TRUE, firstName |-> <<"B", "o", "t">>]
PrivateBot == [isBot |-> TRUE, canBeInvitedToGroup |-> FALSE, firstName |-> <<"B", "o", "t">>]
UserChoices == {None, Some(Human), Some(InvitableBot), Some(PrivateBot)}

----------------------------------------------------------------------------
(* Helpers imported by the component; p is the snapshot a render reads *)

\* usersById[id], undefined when the index holds no such key
UserOf(p, id) ==
  IF id \in DOMAIN Val(p.usersById) THEN Val(p.usersById)[id] ELSE None

isUserBot(user) == user.isBot

\* util/iteratees unique: Array.from(new Set(array)), first occurrences in order
RECURSIVE unique(_)
unique(s) ==
  IF Len(s) = 0 THEN <<>>
  ELSE LET r == unique(Front(s))
       IN IF Last(s) \in Range(r) THEN r ELSE Append(r, Last(s))

\* stable insertion of x into a sequence sorted by descending key
RECURSIVE InsertByDesc(_, _, _)
InsertByDesc(sorted, x, key) ==
  IF Len(sorted) = 0 THEN <<x>>
  ELSE IF key[Head(sorted)] >= key[x]
       THEN <<Head(sorted)>> \o InsertByDesc(Tail(sorted), x, key)
       ELSE <<x>> \o sorted

\* orderBy(ids, key, 'desc'): a stable sort
RECURSIVE orderByDesc(_, _)
orderByDesc(ids, key) ==
  IF Len(ids) = 0 THEN <<>>
  ELSE InsertByDesc(orderByDesc(Front(ids), key), Last(ids), key)

\* sortUserIds: by presence, 0 for an identifier without user or status
sortUserIds(p, ids) ==
  orderByDesc(ids, [id \in Range(ids) |->
    IF id \in DOMAIN p.userStatusesById /\ IsSome(UserOf(p, id))
    THEN p.userStatusesById[id] ELSE 0])

\* sortChatIds: by the chat's priority, 0 for an identifier without chat
sortChatIds(p, ids) ==
  orderByDesc(ids, [id \in Range(ids) |->
    IF id \in DOMAIN p.chatsById THEN p.chatsById[id] ELSE 0])

ToLower(c) == CASE c = "A" -> "a" [] c = "B" -> "b" [] OTHER -> c

\* the normalised name contains the normalised query
NameMatches(name, query) ==
  \E i \in 1..(Len(name) - Len(query) + 1) :
    \A j \in 1..Len(query) : ToLower(name[i + j - 1]) = ToLower(query[j])

\* filterUsersByName: identifiers without a resolvable user are dropped
filterUsersByName(p, ids, query) ==
  SelectSeq(ids, LAMBDA id :
    /\ IsSome(p.usersById)
    /\ IsSome(UserOf(p, id))
    /\ NameMatches(Val(UserOf(p, id)).firstName, query))

----------------------------------------------------------------------------
(* The memoised values of the component *)

\* const adminIds = useMemo(...)
adminIds(p) ==
  IF p.noAdmins /\ IsSome(p.adminMembersById) THEN Val(p.adminMembersById) ELSE {}

\* const memberIds = useMemo(...)
memberIdsMemo(p) ==
  IF ~IsSome(p.members) \/ ~IsSome(p.usersById) THEN <<>>
  ELSE LET userIds == sortUserIds(p, Val(p.members))
       IN IF p.noAdmins
          THEN SelectSeq(userIds, LAMBDA userId : userId \notin adminIds(p))
          ELSE userIds

\* Boolean(searchQuery)
shouldUseSearchResults(p) == IsSome(p.searchQuery) /\ Len(Val(p.searchQuery)) > 0

\* variant: the membership list is listed in search mode too
listedIdsMembersAlways(p, mIds) == mIds

\* const listedIds = ...; mIds is the memoised memberIds
listedIds(p, mIds) ==
  IF ~shouldUseSearchResults(p) THEN mIds
  ELSE IF IsSome(p.localContactIds)
       THEN filterUsersByName(p, Val(p.localContactIds), Val(p.searchQuery))
       ELSE <<>>

OrEmpty(o) == IF IsSome(o) THEN Val(o) ELSE <<>>

\* the array literal handed to unique
mergedIds(p, mIds) ==
  listedIds(p, mIds)
    \o (IF shouldUseSearchResults(p) THEN OrEmpty(p.localUserIds) ELSE <<>>)
    \o (IF shouldUseSearchResults(p) THEN OrEmpty(p.globalUserIds) ELSE <<>>)

\* variant: the merged array is not deduplicated
candidateIdsNotUnique(p, mIds) == mergedIds(p, mIds)

\* unique([...])
candidateIds(p, mIds) == unique(mergedIds(p, mIds))

\* variant: an identifier without user record is rejected
isEligibleResolvedOnly(p, contactId) ==
  LET user == UserOf(p, contactId)
  IN IF ~IsSome(user) THEN FALSE
     ELSE /\ (p.isChannel \/ Val(user).canBeInvitedToGroup \/ ~isUserBot(Val(user)))
          /\ (~p.noAdmins \/ contactId \notin adminIds(p))

\* variant: the bot check is missing
isEligibleAnyBot(p, contactId) ==
  LET user == UserOf(p, contactId)
  IN IF ~IsSome(user) THEN TRUE
     ELSE ~p.noAdmins \/ contactId \notin adminIds(p)

\* the callback of .filter
isEligible(p, contactId) ==
  LET user == UserOf(p, contactId)
  IN IF ~IsSome(user) THEN TRUE
     ELSE /\ (p.isChannel \/ Val(user).canBeInvitedToGroup \/ ~isUserBot(Val(user)))
          /\ (~p.noAdmins \/ contactId \notin adminIds(p))

\* usersById[contactId] on an undefined usersById is a TypeError; the
\* callback runs once for every candidate
displayedIdsRaises(p, mIds) == ~IsSome(p.usersById) /\ Len(candidateIds(p, mIds)) > 0

\* const displayedIds = useMemo(...)
displayedIdsMemo(p, mIds) ==
  sortChatIds(p, SelectSeq(candidateIds(p, mIds), LAMBDA id : isEligible(p, id)))

----------------------------------------------------------------------------
(* What the component hands to the pagination hook and to InfiniteScroll *)

\* variant: the hook is handed memberIds
listIdsArgMembers(mIds, dIds) == mIds

\* useInfiniteScroll(undefined, displayedIds, Boolean(searchQuery)): 2nd argument
listIdsArg(mIds, dIds) == dIds

\* ... 3rd argument
isDisabledArg(p) == shouldUseSearchResults(p)

\* variant: the flag is inverted
noScrollRestoreInverted(p) == ~shouldUseSearchResults(p)

\* <InfiniteScroll noScrollRestore={Boolean(searchQuery)}>
noScrollRestoreProp(p) == shouldUseSearchResults(p)

----------------------------------------------------------------------------
(* The pagination window: hooks/useInfiniteScroll *)

Prefix(ids, n) == SubSeq(ids, 1, Min(n, Len(ids)))

\* the size of the window over a list the hook sees for the first time
InitialViewportSize(listIds) == Min(InitialPageSize, Len(listIds))

\* variant: the page is added without the cap
NextViewportSizeUncapped(size, listIds) == size + PageIncrement

\* the size of the window after one more page
NextViewportSize(size, listIds) == Min(size + PageIncrement, Len(listIds))

\* Reset: the list handed to the hook is a new array
ResetWindow(listIds) ==
  /\ viewportSize' = InitialViewportSize(listIds)
  /\ viewportIds' = Prefix(listIds, InitialViewportSize(listIds))
  /\ sizeBeforeReset' = viewportSize

\* getMore: one more page, capped at the list's length
getMore(listIds) ==
  /\ viewportSize' = NextViewportSize(viewportSize, listIds)
  /\ viewportIds' = Prefix(listIds, NextViewportSize(viewportSize, listIds))
  /\ UNCHANGED sizeBeforeReset

----------------------------------------------------------------------------
(* Rendering *)

\* A render of snapshot p after a change of a dependency of the memoised
\* values: memberIds, then displayedIds, then the hook.
Render(p) ==
  LET mIds == memberIdsMemo(p)
      dIds == displayedIdsMemo(p, mIds)
  IN /\ memberIds' = mIds
     /\ rendered' = TRUE
     /\ IF displayedIdsRaises(p, mIds)
        THEN /\ raised' = TRUE
             /\ UNCHANGED <<displayedIds, displayedRef, hook>>
        ELSE /\ raised' = FALSE
             /\ displayedIds' = dIds
             /\ displayedRef' = 1 - displayedRef
             /\ isDisabled' = isDisabledArg(p)
             /\ noScrollRestore' = noScrollRestoreProp(p)
             /\ ResetWindow(listIdsArg(mIds, dIds))

\* variant: the viewer's own entry is not excepted
getMemberContextActionForSelfToo(memberId) ==
  IF ~canDeleteMembers THEN None ELSE Some(memberId)

\* function getMemberContextAction(memberId): the id its handler captures,
\* or undefined when no action is offered
getMemberContextAction(memberId) ==
  IF Some(memberId) = currentUserId \/ ~canDeleteMembers
  THEN None
  ELSE Some(memberId)

\* const handleDeleteMembersModalClose = useCallback(...)
handleDeleteMembersModalClose == deletingUserId' = None

----------------------------------------------------------------------------
(* The assembler as a function of its inputs: one render of every snapshot *)

MembershipQueries == {None, Some(<<>>)}
SearchQueries == {Some(<<"a", "n">>)}
IdLists(n) == {None} \cup {Some(s) : s \in SeqsUpTo(Ids, n)}
FewIdLists == {None, Some(<<AllIds[1]>>), Some(<<AllIds[2], AllIds[1]>>)}

InitAssemble ==
  /\ usersById \in {None} \cup {Some(f) : f \in [Ids -> UserChoices]}
  /\ adminMembersById \in {None} \cup {Some(s) : s \in SUBSET Ids}
  /\ userStatusesById = (AllIds[2] :> 1)
  /\ chatsById = (AllIds[2] :> 1)
  /\ isChannel \in BOOLEAN
  /\ noAdmins \in BOOLEAN
  /\ searchQuery \in MembershipQueries \cup SearchQueries
  /\ members \in (IF searchQuery \in SearchQueries THEN FewIdLists ELSE IdLists(MaxMembers))
  /\ localContactIds \in (IF searchQuery \in SearchQueries THEN IdLists(MaxResults) ELSE FewIdLists)
  /\ localUserIds \in (IF searchQuery \in SearchQueries THEN IdLists(MaxResults) ELSE {localContactIds})
  /\ globalUserIds \in (IF searchQuery \in SearchQueries THEN IdLists(MaxResults) ELSE {localContactIds})
  /\ currentUserId = None
  /\ canDeleteMembers = FALSE
  /\ memberIds = <<>>
  /\ displayedIds = <<>>
  /\ displayedRef = 0
  /\ rendered = FALSE
  /\ raised = FALSE
  /\ viewportIds = <<>>
  /\ viewportSize = 0
  /\ isDisabled = FALSE
  /\ noScrollRestore = FALSE
  /\ sizeBeforeReset = 0
  /\ deletingUserId = None

FirstRender ==
  /\ ~rendered
  /\ UNCHANGED <<inputs, viewer, deletingUserId>>
  /\ Render(Snapshot)

NextAssemble == FirstRender

SpecAssemble == InitAssemble /\ [][NextAssemble]_vars

----------------------------------------------------------------------------
(* The mounted component: props change, the list is scrolled, members are   *)
(* picked for removal                                                       *)

MountedUsers ==
  [id \in Range(AllIds) |->
    CASE id = AllIds[3] -> Some(PrivateBot)
      [] id = AllIds[7] -> None
      [] id = AllIds[8] -> Some(InvitableBot)
      [] OTHER -> Some(Human)]

MemberSnapshots == {None} \cup {Some(SubSeq(AllIds, 1, n)) : n \in (MaxListed - 2)..MaxListed}
QueryTexts == {<<>>, <<"a", "n">>}
SearchResults ==
  {<<None, None>>,
   <<Some(<<AllIds[6], AllIds[2]>>), None>>,
   <<Some(<<AllIds[6], AllIds[2]>>), Some(<<AllIds[7], AllIds[8], AllIds[1]>>)>>}
Viewers == {None, Some(AllIds[2])}

Init ==
  /\ usersById = Some(MountedUsers)
  /\ adminMembersById = Some({AllIds[1]})
  /\ userStatusesById = (AllIds[4] :> 2) @@ (AllIds[2] :> 1)
  /\ chatsById = (AllIds[5] :> 1)
  /\ isChannel = FALSE
  /\ noAdmins \in BOOLEAN
  /\ searchQuery = None
  /\ members = None
  /\ localContactIds = Some(<<AllIds[2], AllIds[4], AllIds[3]>>)
  /\ localUserIds = None
  /\ globalUserIds = None
  /\ currentUserId = Some(AllIds[2])
  /\ canDeleteMembers = TRUE
  /\ memberIds = memberIdsMemo(Snapshot)
  /\ displayedIds = displayedIdsMemo(Snapshot, memberIds)
  /\ displayedRef = 0
  /\ rendered = TRUE
  /\ raised = FALSE
  /\ viewportSize = InitialViewportSize(listIdsArg(memberIds, displayedIds))
  /\ viewportIds = Prefix(listIdsArg(memberIds, displayedIds), viewportSize)
  /\ isDisabled = isDisabledArg(Snapshot)
  /\ noScrollRestore = noScrollRestoreProp(Snapshot)
  /\ sizeBeforeReset = 0
  /\ deletingUserId = None

\* a new membership snapshot arrives from the global state
UpdateMembers(m) ==
  /\ ~raised
  /\ members' = m
  /\ UNCHANGED <<adminMembersById, usersById, userStatusesById, chatsById,
                 localContactIds, localUserIds, globalUserIds, searchQuery,
                 isChannel, noAdmins>>
  /\ Render([Snapshot EXCEPT !.members = m])
  /\ UNCHANGED <<viewer, deletingUserId>>

\* the search query is typed, replaced or cleared
UpdateSearchQuery(q) ==
  /\ ~raised
  /\ searchQuery' = Some(q)
  /\ UNCHANGED <<members, adminMembersById, usersById, userStatusesById, chatsById,
                 localContactIds, localUserIds, globalUserIds, isChannel, noAdmins>>
  /\ Render([Snapshot EXCEPT !.searchQuery = Some(q)])
  /\ UNCHANGED <<viewer, deletingUserId>>

\* the search subsystem delivers (or drops) its results
UpdateSearchResults(l, g) ==
  /\ ~raised
  /\ localUserIds' = l
  /\ globalUserIds' = g
  /\ UNCHANGED <<members, adminMembersById, usersById, userStatusesById, chatsById,
                 localContactIds, searchQuery, isChannel, noAdmins>>
  /\ Render([Snapshot EXCEPT !.localUserIds = l, !.globalUserIds = g])
  /\ UNCHANGED <<viewer, deletingUserId>>

\* InfiniteScroll, rendered while the viewport is not empty, calls onLoadMore
LoadMore ==
  /\ ~raised
  /\ Len(viewportIds) > 0
  /\ getMore(listIdsArg(memberIds, displayedIds))
  /\ UNCHANGED <<inputs, viewer, memo, isDisabled, noScrollRestore, deletingUserId>>

\* the context action of a rendered list item is chosen
InvokeContextAction(id) ==
  /\ ~raised
  /\ id \in Range(viewportIds)
  /\ IsSome(getMemberContextAction(id))
  /\ deletingUserId' = Some(Val(getMemberContextAction(id)))
  /\ UNCHANGED <<inputs, viewer, memo, hook>>

\* DeleteMemberModal, rendered while canDeleteMembers, calls onClose
CloseDeleteMemberModal ==
  /\ ~raised
  /\ canDeleteMembers
  /\ IsSome(deletingUserId)
  /\ handleDeleteMembersModalClose
  /\ UNCHANGED <<inputs, viewer, memo, hook>>

\* the viewer or the viewer's rights change: a render that recomputes nothing
UpdateViewer(u, c) ==
  /\ ~raised
  /\ <<u, c>> # <<currentUserId, canDeleteMembers>>
  /\ currentUserId' = u
  /\ canDeleteMembers' = c
  /\ UNCHANGED <<inputs, memo, hook, deletingUserId>>

Next ==
  \/ \E m \in MemberSnapshots : UpdateMembers(m)
  \/ \E q \in QueryTexts : UpdateSearchQuery(q)
  \/ \E r \in SearchResults : UpdateSearchResults(r[1], r[2])
  \/ LoadMore
  \/ \E id \in Range(AllIds) : InvokeContextAction(id)
  \/ CloseDeleteMemberModal
  \/ \E u \in Viewers, c \in BOOLEAN : UpdateViewer(u, c)

Spec == Init /\ [][Next]_vars

----------------------------------------------------------------------------
(* Properties of the assembler (SpecAssemble) *)

\* the identifiers the sources of the current mode supply
SourceIds ==
  IF IsSome(searchQuery) /\ Len(Val(searchQuery)) > 0
  THEN Range(filterUsersByName(Snapshot, OrEmpty(localContactIds), Val(searchQuery)))
         \cup Range(OrEmpty(localUserIds)) \cup Range(OrEmpty(globalUserIds))
  ELSE Range(memberIds)

Resolved(id) == IsSome(usersById) /\ IsSome(UserOf(Snapshot, id))
ResolvedBot(id) == Resolved(id) /\ Val(UserOf(Snapshot, id)).isBot
Invitable(id) == Resolved(id) /\ Val(UserOf(Snapshot, id)).canBeInvitedToGroup
AdminKeys == IF IsSome(adminMembersById) THEN Val(adminMembersById) ELSE {}
Completed == rendered /\ ~raised

\* C1: in admins-only mode no key of the admin index is in displayedIds,
\* in membership mode and in search mode, resolvable or not.
AdminExclusion ==
  (Completed /\ noAdmins) => Range(displayedIds) \cap AdminKeys = {}

\* C2: displayedIds holds every identifier at most once.
NoDuplicates ==
  Completed => NoRepeat(displayedIds)

\* C2 witness: an identifier delivered by both the local and the global search
\* is displayed.
NoDuplicatesWitness ==
  /\ Completed
  /\ \E id \in Range(displayedIds) :
       id \in Range(OrEmpty(localUserIds)) \cap Range(OrEmpty(globalUserIds))

ModeExclusivity ==
  Completed =>
    IF IsSome(searchQuery) /\ Len(Val(searchQuery)) > 0
    THEN Range(displayedIds) \subseteq
           Range(filterUsersByName(Snapshot, OrEmpty(localContactIds), Val(searchQuery)))
             \cup Range(OrEmpty(localUserIds)) \cup Range(OrEmpty(globalUserIds))
    ELSE Range(displayedIds) \subseteq Range(memberIds)

\* C4 witness: in search mode a member that no search source supplies is left
\* out while another identifier is displayed.
ModeExclusivityWitness ==
  /\ Completed
  /\ IsSome(searchQuery) /\ Len(Val(searchQuery)) > 0
  /\ Len(displayedIds) > 0
  /\ \E id \in Range(memberIds) : id \notin SourceIds /\ id \notin Range(displayedIds)

NoFatalPath ==
  rendered =>
    /\ ~raised
    /\ (~IsSome(members) \/ ~IsSome(usersById)) => memberIds = <<>>

----------------------------------------------------------------------------
(* Properties of the mounted component (Spec) *)

\* C7: the viewport is the first viewportSize identifiers of the current
\* displayedIds, in order.
ViewportIsPrefix ==
  /\ viewportSize <= Len(displayedIds)
  /\ Len(viewportIds) = viewportSize
  /\ \A i \in 1..Len(viewportIds) : viewportIds[i] = displayedIds[i]

\* C7 witness: after a reset and further pages the viewport is a proper,
\* grown prefix of a list in search mode.
ViewportIsPrefixWitness ==
  /\ IsSome(searchQuery) /\ Len(Val(searchQuery)) > 0
  /\ sizeBeforeReset > 0
  /\ viewportSize > InitialPageSize
  /\ viewportSize < Len(displayedIds)

RemoveActionGating ==
  /\ [](\A id \in Range(viewportIds) :
          IsSome(getMemberContextAction(id))
            <=> (Some(id) # currentUserId /\ canDeleteMembers))
  /\ [][deletingUserId' # deletingUserId =>
          \/ deletingUserId' = None
          \/ /\ canDeleteMembers
             /\ deletingUserId' # currentUserId
             /\ Val(deletingUserId') \in Range(viewportIds)]_vars
  /\ [][CloseDeleteMemberModal => deletingUserId' = None]_vars

\* C10 witness: a member was picked for removal and the viewer's right to
\* remove members was withdrawn afterwards.
RemoveActionGatingWitness ==
  /\ IsSome(deletingUserId)
  /\ ~canDeleteMembers

====
